---- MODULE Spec2Model ----
(***************************************************************************)
(* A model of script.py: one run of main() against an abstract repository  *)
(* service (getCollection, createCollection, createDataset, uploadFile).   *)
(*                                                                         *)
(* The run is cut at the points where it talks to the outside world (the   *)
(* file system, the service, a sleep): between two such points the code is *)
(* sequential and is one action.  Every service call returns a response    *)
(* (status, body); the responses are the model's inputs.                   *)
(*                                                                         *)
(* Spec is the whole run, with build_dataset as one step.  SpecEnsureTwice *)
(* calls ensure_dataverse_exists repeatedly, SpecCompose looks into        *)
(* build_dataset (the functions that patch the citation fields), and       *)
(* SpecUpload is upload_files alone, under the fairness of its steps.      *)
(***************************************************************************)
EXTENDS Integers, Sequences, FiniteSets

\* ------------------------------------------------------------------ bounds

\* Largest number of files iter_files discovers.
MaxFiles == 3
\* Largest value of --upload-retries (the smallest tried is -1).
MaxRetries == 3

\* ThreadPoolExecutor() is given no max_workers: the host decides how many
\* worker threads there are.  Two, so that the files can outnumber them.
PoolSize == 2

\* --------------------------------------------------------------- variables

VARIABLES
    args,        \* the parsed command line (read-only after parse_args)
    env,         \* the file system the run finds (read-only)
    pc,          \* where main() is
    nfiles,      \* len(files): the files are 1..nfiles, in discovery order
    dvExists,    \* service side: the collection with this alias exists
    calls,       \* history: number of calls issued, per service operation
    getStatus,   \* existing.status_code (0: get_dataverse not called)
    resp,        \* the createCollection response (status 0: none)
    outcome,     \* history: how each ensure_dataverse_exists call ended
    created,     \* history: number of createCollection calls answered 201
    dsResp,      \* history: the createDataset response (status 0: none)
    dataset_pid, \* what create_dataset returned ("": nothing yet)
    task,        \* per file: the state of its _upload_single_file call
    idx,         \* the main thread's position in its loop over the files
    finished,    \* concurrent mode: the futures finished before as_completed was
                 \* called, and not yet yielded
    queue,       \* concurrent mode: the futures finished since, in that order,
                 \* and not yet yielded
    earlyFailed, \* history: the failed tasks finished before as_completed was called
    firstFailed, \* history: the first task that failed, in completion order (0: none)
    errors,      \* concurrent mode: the list `errors` (file of each entry)
    err,         \* the exception that ended the run (kind "none": none)
    metadata,    \* the citation field list of the document being composed
    template,    \* history: that list as load_dataset_template returned it
    log          \* history: the composer calls made on the document, in order

vars == <<args, env, pc, nfiles, dvExists, calls, getStatus, resp, outcome,
          created, dsResp, dataset_pid, task, idx, finished, queue,
          earlyFailed, firstFailed, errors, err, metadata, template, log>>

ensureVars == <<dvExists, calls, getStatus, resp, outcome, created>>
uploadVars == <<task, idx, finished, queue, earlyFailed, firstFailed, errors>>
composeVars == <<metadata, template, log>>

\* ------------------------------------------------------------------- text

\* A response body is a sequence of characters.
Upper == <<"A","B","C","D","E","F","G","H","I","J","K","L","M",
           "N","O","P","Q","R","S","T","U","V","W","X","Y","Z">>
Lower == <<"a","b","c","d","e","f","g","h","i","j","k","l","m",
           "n","o","p","q","r","s","t","u","v","w","x","y","z">>

\* str.lower() on one character.
LowerChar(c) ==
    IF \E i \in 1..Len(Upper) : Upper[i] = c
    THEN Lower[CHOOSE i \in 1..Len(Upper) : Upper[i] = c]
    ELSE c

\* str.lower()
ToLower(s) == [i \in 1..Len(s) |-> LowerChar(s[i])]

\* needle in hay
Contains(hay, needle) ==
    \E i \in 0..(Len(hay) - Len(needle)) :
        SubSeq(hay, i + 1, i + Len(needle)) = needle

\* "already exists"
AlreadyExists == <<"a","l","r","e","a","d","y"," ","e","x","i","s","t","s">>

\* The bodies the service answers with.
BodyOk == <<"O","K">>
BodyConflict == <<"a","l","i","a","s"," ">> \o AlreadyExists
BodyConflictCaps ==
    <<"A","l","r","e","a","d","y"," ","E","x","i","s","t","s","!">>
BodyNearMiss == <<"a","l","r","e","a","d","y"," ","e","x","i","s","t">>
BodyDenied == <<"d","e","n","i","e","d">>
Bodies == {BodyOk, BodyConflict, BodyConflictCaps, BodyNearMiss, BodyDenied}

\* ------------------------------------------------------------- the service

\* get_dataverse answers.
GetStatuses == {200, 404}
\* create_dataverse answers.
CreateResponses ==
    {<<201, BodyOk>>, <<200, BodyOk>>,
     <<400, BodyConflict>>, <<400, BodyConflictCaps>>,
     <<400, BodyNearMiss>>, <<400, BodyDenied>>,
     <<403, BodyConflict>>, <<500, BodyDenied>>}
\* create_dataset answers, and the persistent identifiers it hands out.
DatasetStatuses == {200, 201, 400}
Pids == {"doi:A", "doi:B"}
\* upload_datafile answers.
UploadStatuses == {200, 201, 500}

\* What a service that keeps track of its collections answers: found exactly
\* when the collection exists, and a conflict to the creation of an existing one.
TrackedGet == {st \in GetStatuses : (st = 200) <=> dvExists}
TrackedCreate ==
    {r \in CreateResponses :
        IF dvExists
        THEN r[1] = 400 /\ r[2] \in {BodyConflict, BodyConflictCaps}
        ELSE r[1] = 201}

NoResp == [status |-> 0, body |-> <<>>]
NoErr == [kind |-> "none", status |-> 0, body |-> <<>>, file |-> 0]
Raise(kind) == [kind |-> kind, status |-> 0, body |-> <<>>, file |-> 0]
RaiseResp(kind, st, body) == [kind |-> kind, status |-> st, body |-> body, file |-> 0]
RaiseFile(f, st) == [kind |-> "UploadError", status |-> st, body |-> <<>>, file |-> f]

Max(a, b) == IF a >= b THEN a ELSE b

\* -------------------------------------------------------------------- main

\* The statements of main() in order: what runs after stage s returns.
MainAfter(s) ==
    CASE s = "start"          -> "iter_files"
      [] s = "iter_files"     -> "template_path"
      [] s = "template_path"  -> "build_dataset"
      [] s = "build_dataset"  -> "ensure"
      [] s = "ensure"         -> "create_dataset"
      [] s = "create_dataset" -> "upload_files"
      [] OTHER                -> "done"

Files == 1..nfiles

\* A file's task: attempts and sleeps count the upload calls issued and the
\* sleeps begun, pids are the identifiers the calls carried, stored counts the
\* calls the service accepted, exc is the status in the exception raised.
NewTask ==
    [st |-> "pending", attempts |-> 0, sleeps |-> 0, pids |-> {}, stored |-> 0,
     exc |-> 0]

\* The data directory exists or not.  The template file is missing, is not
\* JSON, composes to a document that violates the dataset JSON schema
\* ("invalid"), composes to a schema-conformant document that validate_json
\* reports as not valid, a required field being absent ("incomplete"), or is fine.
EnvSet ==
    [data_root : BOOLEAN,
     template : {"missing", "malformed", "invalid", "incomplete", "ok"}]

ArgsSet ==
    [dataverse_alias : BOOLEAN,
     skip_dataverse_creation : BOOLEAN,
     concurrent_upload : BOOLEAN,
     upload_retries : (0 - 1)..MaxRetries]

InitRest ==
    /\ nfiles = 0
    /\ calls = [get |-> 0, createDv |-> 0, createDs |-> 0]
    /\ getStatus = 0
    /\ resp = NoResp
    /\ outcome = <<>>
    /\ created = 0
    /\ dsResp = [status |-> 0, pid |-> ""]
    /\ dataset_pid = ""
    /\ task = <<>>
    /\ idx = 1
    /\ finished = {}
    /\ queue = <<>>
    /\ earlyFailed = {}
    /\ firstFailed = 0
    /\ errors = <<>>
    /\ err = NoErr

\* The document is not looked into: build_dataset is one step of main, whose
\* outcome env.template tells.
NotComposing ==
    /\ metadata = <<>>
    /\ template = <<>>
    /\ log = <<>>

Init ==
    /\ args \in ArgsSet
    /\ env \in EnvSet
    /\ pc = "start"
    /\ dvExists = FALSE
    /\ InitRest
    /\ NotComposing

Fail(e) ==
    /\ pc' = "failed"
    /\ err' = e

\* main(): the alias check.
CheckAlias ==
    /\ pc = "start"
    /\ IF args.dataverse_alias
       THEN pc' = MainAfter("start") /\ err' = err
       ELSE Fail(Raise("ConfigError"))
    /\ UNCHANGED <<args, env, nfiles, dsResp, dataset_pid>>
    /\ UNCHANGED ensureVars
    /\ UNCHANGED uploadVars
    /\ UNCHANGED composeVars

\* files = list(iter_files(data_root))
IterFiles ==
    /\ pc = "iter_files"
    /\ \E n \in 0..MaxFiles :
        IF env.data_root
        THEN /\ nfiles' = n
             /\ task' = [f \in 1..n |-> NewTask]
             /\ pc' = MainAfter("iter_files")
             /\ err' = err
        ELSE /\ Fail(Raise("NotFoundError"))
             /\ UNCHANGED <<nfiles, task>>
    /\ UNCHANGED <<args, env, dsResp, dataset_pid, idx, finished, queue, earlyFailed,
                   firstFailed, errors>>
    /\ UNCHANGED ensureVars
    /\ UNCHANGED composeVars

\* default_dataset_template_path()
TemplatePath ==
    /\ pc = "template_path"
    /\ IF env.template # "missing"
       THEN pc' = MainAfter("template_path") /\ err' = err
       ELSE Fail(Raise("NotFoundError"))
    /\ UNCHANGED <<args, env, nfiles, dsResp, dataset_pid>>
    /\ UNCHANGED ensureVars
    /\ UNCHANGED uploadVars
    /\ UNCHANGED composeVars

\* What build_dataset raises: load_dataset_template for a missing file,
\* json.load for a malformed one, from_json for a document that violates the
\* schema.  The verdict of dataset.validate_json() is its return value, which
\* build_dataset does not read: an incomplete document is returned like a valid one.
BuildError(o) ==
    CASE o = "missing"    -> "NotFoundError"
      [] o = "malformed"  -> "ParseError"
      [] o = "invalid"    -> "ValidationError"
      [] o = "incomplete" -> "none"
      [] OTHER            -> "none"

\* build_dataset(template_path, args)
BuildDataset ==
    /\ pc = "build_dataset"
    /\ IF BuildError(env.template) = "none"
       THEN pc' = MainAfter("build_dataset") /\ err' = err
       ELSE Fail(Raise(BuildError(env.template)))
    /\ UNCHANGED <<args, env, nfiles, dsResp, dataset_pid>>
    /\ UNCHANGED ensureVars
    /\ UNCHANGED uploadVars
    /\ UNCHANGED composeVars

\* ------------------------------------------------- ensure_dataverse_exists

\* if skip_creation:
SkipsCreation == args.skip_dataverse_creation

\* Found with the test inverted.
FoundInverted(st) == st # 200

\* if existing.status_code == 200:
Found(st) == st = 200

\* Created with the status of a plain OK.
CreatedAs200(r) == r[1] = 200

\* if response.status_code == 201:
Created(r) == r[1] = 201

\* Conflict without lower().
ConflictCaseSensitive(r) == r[1] = 400 /\ Contains(r[2], AlreadyExists)

\* if response.status_code == 400 and "already exists" in response.text.lower():
Conflict(r) == r[1] = 400 /\ Contains(ToLower(r[2]), AlreadyExists)

\* skip_creation: return at once.  ret is where the caller goes on.
EnsureSkip(ret) ==
    /\ pc = "ensure"
    /\ SkipsCreation
    /\ outcome' = Append(outcome, "skipped")
    /\ pc' = ret
    /\ UNCHANGED <<args, env, nfiles, dsResp, dataset_pid, err>>
    /\ UNCHANGED <<dvExists, calls, getStatus, resp, created>>
    /\ UNCHANGED uploadVars
    /\ UNCHANGED composeVars

\* existing = api.get_dataverse(alias), and the return when it is found.
\* answers: the statuses the service may answer with.
EnsureGet(ret, answers) ==
    /\ pc = "ensure"
    /\ ~SkipsCreation
    /\ \E st \in answers :
        /\ getStatus' = st
        /\ IF Found(st)
           THEN pc' = ret /\ outcome' = Append(outcome, "found")
           ELSE pc' = "creating" /\ outcome' = outcome
    /\ calls' = [calls EXCEPT !.get = @ + 1]
    /\ UNCHANGED <<args, env, nfiles, dsResp, dataset_pid, err>>
    /\ UNCHANGED <<dvExists, resp, created>>
    /\ UNCHANGED uploadVars
    /\ UNCHANGED composeVars

\* response = api.create_dataverse(parent_alias, ...), to the return or the raise.
EnsureCreate(ret, answers) ==
    /\ pc = "creating"
    /\ \E r \in answers :
        /\ resp' = [status |-> r[1], body |-> r[2]]
        /\ dvExists' = (dvExists \/ r[1] = 201)
        /\ created' = IF r[1] = 201 THEN created + 1 ELSE created
        /\ IF Created(r)
           THEN pc' = ret /\ outcome' = Append(outcome, "created") /\ err' = err
           ELSE IF Conflict(r)
           THEN pc' = ret /\ outcome' = Append(outcome, "conflict") /\ err' = err
           ELSE /\ Fail(RaiseResp("ProvisioningError", r[1], r[2]))
                /\ outcome' = Append(outcome, "raised")
    /\ calls' = [calls EXCEPT !.createDv = @ + 1]
    /\ UNCHANGED <<args, env, nfiles, dsResp, dataset_pid, getStatus>>
    /\ UNCHANGED uploadVars
    /\ UNCHANGED composeVars

\* Another client of the service creates the collection.
OtherClientCreates ==
    /\ pc \in {"ensure", "creating", "ensured"}
    /\ ~dvExists
    /\ dvExists' = TRUE
    /\ UNCHANGED <<args, env, pc, nfiles, dsResp, dataset_pid, err>>
    /\ UNCHANGED <<calls, getStatus, resp, outcome, created>>
    /\ UNCHANGED uploadVars
    /\ UNCHANGED composeVars

\* ---------------------------------------------------------- create_dataset

\* DatasetCreated accepting every 2xx answer.
DatasetCreatedAny2xx(st) == st \in {200, 201}

\* The service does not create a dataset from an incomplete description.
DatasetAnswers ==
    IF env.template = "incomplete" THEN DatasetStatuses \ {201} ELSE DatasetStatuses

\* if response.status_code != 201: raise
DatasetCreated(st) == st = 201

\* NoFiles with the test left out: upload_files is called for an empty list.
NoFilesNever == FALSE

\* if not files:
NoFiles == nfiles = 0

\* dataset_pid = create_dataset(...), then main's `if not files`.
CreateDataset ==
    /\ pc = "create_dataset"
    /\ \E st \in DatasetAnswers, pid \in Pids :
        IF DatasetCreated(st)
        THEN /\ dataset_pid' = pid
             /\ dsResp' = [status |-> st, pid |-> pid]
             /\ err' = err
             /\ pc' = IF NoFiles THEN "done" ELSE MainAfter("create_dataset")
        ELSE /\ Fail(RaiseResp("DatasetCreationError", st, <<>>))
             /\ dsResp' = [status |-> st, pid |-> ""]
             /\ UNCHANGED dataset_pid
    /\ calls' = [calls EXCEPT !.createDs = @ + 1]
    /\ UNCHANGED <<args, env, nfiles>>
    /\ UNCHANGED <<dvExists, getStatus, resp, outcome, created>>
    /\ UNCHANGED uploadVars
    /\ UNCHANGED composeVars

\* ------------------------------------------------------ _upload_single_file

\* retries=max(1, args.upload_retries)
Retries == Max(1, args.upload_retries)

\* if response.status_code in {200, 201}:
UploadOk(st) == st \in {200, 201}

\* Exhausted, off by one.
ExhaustedOffByOne(attempts) == attempts > Retries

\* if attempts >= retries: raise
Exhausted(attempts) == attempts >= Retries

\* AfterResponse with the sleep placed before the exhaustion test.
AfterResponseSleepFirst(t, st) ==
    IF st \in {200, 201}
    THEN [t EXCEPT !.st = "succeeded"]
    ELSE IF t.attempts >= Retries
    THEN [t EXCEPT !.st = "failed", !.exc = st, !.sleeps = @ + 1]
    ELSE [t EXCEPT !.st = "sleeping", !.sleeps = @ + 1]

\* One pass of the loop body after the response came in: return, raise, or sleep.
AfterResponse(t, st) ==
    IF UploadOk(st)
    THEN [t EXCEPT !.st = "succeeded"]
    ELSE IF Exhausted(t.attempts)
    THEN [t EXCEPT !.st = "failed", !.exc = st]
    ELSE [t EXCEPT !.st = "sleeping", !.sleeps = @ + 1]

\* The service stores the file of an upload it answers with 200 or 201.
Accept(t, st) == IF st \in {200, 201} THEN [t EXCEPT !.stored = @ + 1] ELSE t

\* IssueUpload without `attempts += 1`.
IssueUploadNoCount(t) ==
    [t EXCEPT !.st = "attempting", !.pids = @ \cup {dataset_pid}]

\* attempts += 1; api.upload_datafile(dataset_pid, ...) is issued.
IssueUpload(t) ==
    [t EXCEPT !.st = "attempting", !.attempts = @ + 1,
              !.pids = @ \cup {dataset_pid}]

Terminal(f) == task[f].st \in {"succeeded", "failed"}
\* Running with the worker thread given back for the time of the sleep.
RunningAttempts == {f \in Files : task[f].st = "attempting"}

\* The tasks a worker thread is running: sleep(retry_delay) is a part of the call.
Running == {f \in Files : task[f].st \in {"attempting", "sleeping"}}

\* Sequential: the for loop is at file f.  Concurrent: f was submitted, a worker
\* thread is free, and the work queue hands out the items in submission order.
CanStart(f) ==
    IF args.concurrent_upload
    THEN /\ pc \in {"upload_files", "collecting"}
         /\ f < idx
         /\ Cardinality(Running) < PoolSize
         /\ \A g \in 1..(f - 1) : task[g].st # "pending"
    ELSE /\ pc = "upload_files"
         /\ f = idx

\* SeqAdvances with the exception swallowed: the loop goes on after a failure.
SeqAdvancesAlways(t) == t.st \in {"succeeded", "failed"}

\* The sequential loop takes the next file when _upload_single_file returned;
\* its exception leaves the loop, upload_files and main.
SeqAdvances(t) == t.st = "succeeded"

\* The call of _upload_single_file for file f starts: its first attempt.
UploadBegin(f) ==
    /\ task[f].st = "pending"
    /\ CanStart(f)
    /\ task' = [task EXCEPT ![f] = IssueUpload(@)]
    /\ UNCHANGED <<args, env, pc, nfiles, dsResp, dataset_pid, err>>
    /\ UNCHANGED <<idx, finished, queue, earlyFailed, firstFailed, errors>>
    /\ UNCHANGED ensureVars
    /\ UNCHANGED composeVars

\* The response to the attempt of file f in flight arrives.  In the sequential
\* loop a return moves on to the next file (after the last one main returns 0)
\* and a raise ends the run; in a worker thread either sets the future's result.
UploadRespond(f) ==
    /\ task[f].st = "attempting"
    /\ \E st \in UploadStatuses :
        LET t == Accept(AfterResponse(task[f], st), st) IN
        /\ task' = [task EXCEPT ![f] = t]
        /\ IF args.concurrent_upload
           THEN /\ IF t.st \notin {"succeeded", "failed"}
                   THEN UNCHANGED <<finished, queue>>
                   ELSE IF pc = "upload_files"
                   THEN finished' = finished \cup {f} /\ queue' = queue
                   ELSE finished' = finished /\ queue' = Append(queue, f)
                /\ firstFailed' = IF t.st = "failed" /\ firstFailed = 0
                                  THEN f ELSE firstFailed
                /\ UNCHANGED <<pc, idx, err>>
           ELSE /\ UNCHANGED <<finished, queue, firstFailed>>
                /\ IF SeqAdvances(t)
                   THEN /\ idx' = idx + 1
                        /\ pc' = IF idx = nfiles THEN "done" ELSE pc
                        /\ err' = err
                   ELSE IF t.st = "failed"
                   THEN Fail(RaiseFile(f, st)) /\ idx' = idx
                   ELSE UNCHANGED <<pc, idx, err>>
    /\ UNCHANGED <<args, env, nfiles, dsResp, dataset_pid, earlyFailed, errors>>
    /\ UNCHANGED ensureVars
    /\ UNCHANGED composeVars

\* sleep(retry_delay) is over: the next pass of the loop issues the next attempt.
UploadRetry(f) ==
    /\ task[f].st = "sleeping"
    /\ task' = [task EXCEPT ![f] = IssueUpload(@)]
    /\ UNCHANGED <<args, env, pc, nfiles, dsResp, dataset_pid, err>>
    /\ UNCHANGED <<idx, finished, queue, earlyFailed, firstFailed, errors>>
    /\ UNCHANGED ensureVars
    /\ UNCHANGED composeVars

\* ------------------------------------------- upload_files, concurrent=True

\* executor.submit(_upload_single_file, ...) for the next file of file_list.
Submit ==
    /\ pc = "upload_files"
    /\ args.concurrent_upload
    /\ idx <= nfiles
    /\ idx' = idx + 1
    /\ UNCHANGED <<args, env, pc, nfiles, dsResp, dataset_pid, err>>
    /\ UNCHANGED <<task, finished, queue, earlyFailed, firstFailed, errors>>
    /\ UNCHANGED ensureVars
    /\ UNCHANGED composeVars

\* as_completed(future_to_file) is called: the futures that are finished by now
\* are yielded first, in no particular order; the others as they finish.
AsCompleted ==
    /\ pc = "upload_files"
    /\ args.concurrent_upload
    /\ idx > nfiles
    /\ earlyFailed' = {f \in finished : task[f].st = "failed"}
    /\ pc' = "collecting"
    /\ UNCHANGED <<args, env, nfiles, dsResp, dataset_pid, err>>
    /\ UNCHANGED <<task, idx, finished, queue, firstFailed, errors>>
    /\ UNCHANGED ensureVars
    /\ UNCHANGED composeVars

\* The futures as_completed may yield next.
Yieldable ==
    IF finished # {}
    THEN finished
    ELSE IF queue # <<>> THEN {Head(queue)} ELSE {}

\* The futures as_completed has yielded.
Yielded ==
    {f \in Files : Terminal(f)} \ (finished \cup {queue[i] : i \in 1..Len(queue)})

\* Collects with the append outside the except clause.
CollectsEvery(f) == TRUE

\* except Exception as exc: errors.append((file_path, exc))
Collects(f) == task[f].st = "failed"

\* LoopEnds with the loop left at the first failure.
LoopEndsOnFailure(coll) ==
    coll = Files \/ \E f \in coll : task[f].st = "failed"

\* The loop stops once every future was yielded.
LoopEnds(coll) == coll = Files

\* One pass of `for future in as_completed(...)`; after the last one the executor
\* is shut down and upload_files raises for errors[0] or returns.
Collect(f) ==
    /\ pc = "collecting"
    /\ f \in Yieldable
    /\ LET errs == IF Collects(f) THEN Append(errors, f) ELSE errors
           coll == Yielded \cup {f}
       IN /\ errors' = errs
          /\ IF f \in finished
             THEN finished' = finished \ {f} /\ queue' = queue
             ELSE finished' = finished /\ queue' = Tail(queue)
          /\ IF ~LoopEnds(coll)
             THEN UNCHANGED <<pc, err>>
             ELSE IF errs # <<>>
             THEN Fail(RaiseFile(errs[1], task[errs[1]].exc))
             ELSE pc' = "done" /\ err' = err
    /\ UNCHANGED <<args, env, nfiles, dsResp, dataset_pid>>
    /\ UNCHANGED <<task, idx, earlyFailed, firstFailed>>
    /\ UNCHANGED ensureVars
    /\ UNCHANGED composeVars

Next ==
    \/ CheckAlias
    \/ IterFiles
    \/ TemplatePath
    \/ BuildDataset
    \/ EnsureSkip(MainAfter("ensure"))
    \/ EnsureGet(MainAfter("ensure"), GetStatuses)
    \/ EnsureCreate(MainAfter("ensure"), CreateResponses)
    \/ CreateDataset
    \/ \E f \in Files : UploadBegin(f)
    \/ \E f \in Files : UploadRespond(f)
    \/ \E f \in Files : UploadRetry(f)
    \/ Submit
    \/ AsCompleted
    \/ \E f \in Files : Collect(f)

Spec == Init /\ [][Next]_vars

\* ExitCode with the exception swallowed: the process exits with 0 all the same.
ExitCodeSwallowsError ==
    CASE pc \in {"done", "failed"} -> 0
      [] OTHER                     -> 0 - 1

\* sys.exit(main()) with main's `return 0`, sys.exit(1) in the except clause;
\* -1 while the process runs.
ExitCode ==
    CASE pc = "done"   -> 0
      [] pc = "failed" -> 1
      [] OTHER         -> 0 - 1

\* ------------------------------------ ensure_dataverse_exists, called again

\* How many times in a row the caller calls ensure_dataverse_exists.
MaxEnsureCalls == 2

\* A caller that has parsed its arguments and calls ensure_dataverse_exists
\* against a service that keeps track of its collections.
InitEnsure ==
    /\ args \in {a \in ArgsSet : a.dataverse_alias}
    /\ env \in {e \in EnvSet : e.data_root /\ e.template = "ok"}
    /\ pc = "ensure"
    /\ dvExists \in BOOLEAN
    /\ InitRest
    /\ NotComposing

\* The call returned: the caller calls again.
EnsureAgain ==
    /\ pc = "ensured"
    /\ Len(outcome) < MaxEnsureCalls
    /\ pc' = "ensure"
    /\ UNCHANGED <<args, env, nfiles, dsResp, dataset_pid, err>>
    /\ UNCHANGED ensureVars
    /\ UNCHANGED uploadVars
    /\ UNCHANGED composeVars

NextEnsure ==
    \/ EnsureSkip("ensured")
    \/ EnsureGet("ensured", TrackedGet)
    \/ EnsureCreate("ensured", TrackedCreate)
    \/ OtherClientCreates
    \/ EnsureAgain

SpecEnsureTwice == InitEnsure /\ [][NextEnsure]_vars

\* ------------------------------------------------------ the metadata composer

\* JSON values: a string, null, or a list.  A citation field is a record
\* (typeName, multiple, typeClass, value); the value of a compound field is a
\* list of entries, an entry a map from sub-field names to primitive fields.
Str(s) == [t |-> "str", s |-> s]
None == [t |-> "null"]
List(l) == [t |-> "list", l |-> l]

\* Python's truth value of a JSON value: None, "" and [] are false.
Truthy(v) ==
    CASE v.t = "null" -> FALSE
      [] v.t = "str"  -> v.s # ""
      [] OTHER        -> v.l # <<>>

\* {}
EmptyEntry == [n \in {} |-> None]

Primitive(type_name, value) ==
    [typeName |-> type_name, multiple |-> FALSE, typeClass |-> "primitive",
     value |-> value]
Compound(type_name, entries) ==
    [typeName |-> type_name, multiple |-> TRUE, typeClass |-> "compound",
     value |-> List(entries)]

\* find_field: the index of the first field of that typeName (0: None).
find_field(fields, type_name) ==
    IF \E i \in 1..Len(fields) : fields[i].typeName = type_name
    THEN CHOOSE i \in 1..Len(fields) :
            /\ fields[i].typeName = type_name
            /\ \A j \in 1..(i - 1) : fields[j].typeName # type_name
    ELSE 0

\* set_simple_field that leaves the value of an existing field alone.
set_simple_field_if_absent(fields, type_name, value) ==
    IF value = None \/ find_field(fields, type_name) # 0
    THEN fields
    ELSE Append(fields, Primitive(type_name, value))

\* set_simple_field: the list `fields` after the call.
set_simple_field(fields, type_name, value) ==
    IF value = None
    THEN fields
    ELSE IF find_field(fields, type_name) = 0
    THEN Append(fields, Primitive(type_name, value))
    ELSE [fields EXCEPT ![find_field(fields, type_name)].value = value]

\* ensure_compound_entry that appends the field without looking for it.
ensure_compound_entry_appends(fields, type_name) ==
    Append(fields, Compound(type_name, <<EmptyEntry>>))

\* ensure_compound_entry: the list `fields` after the call; the entry returned
\* is the first of the value list of the first field of that typeName.
ensure_compound_entry(fields, type_name) ==
    LET found == find_field(fields, type_name)
        withField == IF found = 0
                     THEN Append(fields, Compound(type_name, <<EmptyEntry>>))
                     ELSE fields
        i == IF found = 0 THEN Len(fields) + 1 ELSE found
    IN IF ~Truthy(withField[i].value)
       THEN [withField EXCEPT ![i].value = List(<<EmptyEntry>>)]
       ELSE withField

\* update_sub that writes the value whatever it is, None too.
update_sub_always(entry, sub_name, new_value) ==
    [n \in DOMAIN entry \cup {sub_name} |->
        IF n = sub_name THEN Primitive(sub_name, new_value) ELSE entry[n]]

\* One pass of the loop of update_compound_entry.
update_sub(entry, sub_name, new_value) ==
    IF new_value = None
    THEN entry
    ELSE IF sub_name \notin DOMAIN entry
    THEN [n \in DOMAIN entry \cup {sub_name} |->
            IF n = sub_name THEN Primitive(sub_name, new_value) ELSE entry[n]]
    ELSE [entry EXCEPT ![sub_name].value = new_value]

\* update_compound_entry: the entry after the call; values is the dict, a
\* sequence of <<sub_name, new_value>> in insertion order.
RECURSIVE update_compound_entry(_, _)
update_compound_entry(entry, values) ==
    IF values = <<>>
    THEN entry
    ELSE update_compound_entry(
            update_sub(entry, Head(values)[1], Head(values)[2]), Tail(values))

\* override_compound that keeps the updated first entry alone.
override_compound_collapses(fields, type_name, values) ==
    LET ensured == ensure_compound_entry(fields, type_name)
        i == find_field(ensured, type_name)
    IN [ensured EXCEPT ![i].value =
            List(<<update_compound_entry(@.l[1], values)>>)]

\* entry = ensure_compound_entry(fields, type_name); update_compound_entry(entry,
\* values): the entry is updated in place, inside `fields`.
override_compound(fields, type_name, values) ==
    LET ensured == ensure_compound_entry(fields, type_name)
        i == find_field(ensured, type_name)
        entries == ensured[i].value.l
    IN [ensured EXCEPT ![i].value =
            List([entries EXCEPT ![1] = update_compound_entry(@, values)])]

\* apply_title_suffix that replaces the title by the suffix.
apply_title_suffix_replaces(fields, suffix) ==
    IF ~Truthy(suffix) THEN fields ELSE set_simple_field(fields, "title", suffix)

\* apply_title_suffix: the citation fields after the call.
apply_title_suffix(fields, suffix) ==
    IF ~Truthy(suffix)
    THEN fields
    ELSE IF /\ find_field(fields, "title") # 0
            /\ fields[find_field(fields, "title")].value.t = "str"
    THEN [fields EXCEPT ![find_field(fields, "title")].value =
            Str(@.s \o " " \o suffix.s)]
    ELSE set_simple_field(fields, "title", suffix)

\* The dicts apply_metadata_overrides hands to update_compound_entry.
AuthorValues(a) ==
    << <<"authorName", a.author_name>>,
       <<"authorAffiliation", a.author_affiliation>>,
       <<"authorIdentifier", a.author_identifier>>,
       <<"authorIdentifierScheme", a.author_identifier_scheme>> >>
ContactValues(a) ==
    << <<"datasetContactName", a.contact_name>>,
       <<"datasetContactEmail", a.contact_email>> >>
DescriptionValues(a) ==
    << <<"dsDescriptionValue", a.dataset_description>> >>

\* apply_metadata_overrides: the citation fields after the call.
apply_metadata_overrides(fields, a) ==
    LET titled == IF Truthy(a.citation_title)
                  THEN set_simple_field(fields, "title", a.citation_title)
                  ELSE fields
        authored == override_compound(titled, "author", AuthorValues(a))
        contacted == override_compound(authored, "datasetContact", ContactValues(a))
    IN override_compound(contacted, "dsDescription", DescriptionValues(a))

\* datetime.now(timezone.utc).strftime("(%Y-%m-%d %H:%M UTC)"), at some minute.
Timestamp == Str("(2024-01-01 00:00 UTC)")

\* build_dataset: the suffix handed to apply_title_suffix.
ResolvedSuffix(a) == IF a.title_suffix = None THEN Timestamp ELSE a.title_suffix

\* Most composer calls made on one document.
MaxCalls == 2

\* The templates.  Each field is absent or present, in this order; the title is
\* a string or not; a compound field holds no, one or two entries.
OldAuthor ==
    [n \in {"authorName", "authorAffiliation"} |->
        IF n = "authorName" THEN Primitive(n, Str("Old Name"))
        ELSE Primitive(n, Str("Old Affiliation"))]
SecondAuthor == [n \in {"authorName"} |-> Primitive(n, Str("Second Name"))]
OldContact == [n \in {"datasetContactName"} |-> Primitive(n, Str("Old Contact"))]
OldDescription == [n \in {"dsDescriptionValue"} |-> Primitive(n, Str("Old text"))]

SubjectChoices == {<<>>, <<Primitive("subject", Str("Other"))>>}
TitleChoices ==
    {<<>>, <<Primitive("title", Str("My Dataset"))>>,
     <<Primitive("title", List(<<>>))>>}
AuthorChoices ==
    {<<>>, <<Compound("author", <<>>)>>, <<Compound("author", <<OldAuthor>>)>>,
     <<Compound("author", <<OldAuthor, SecondAuthor>>)>>}
ContactChoices ==
    {<<>>, <<Compound("datasetContact", <<>>)>>,
     <<Compound("datasetContact", <<OldContact>>)>>}
DescriptionChoices ==
    {<<>>, <<Compound("dsDescription", <<>>)>>,
     <<Compound("dsDescription", <<OldDescription>>)>>}

Templates ==
    {s \o t \o a \o c \o d :
        s \in SubjectChoices, t \in TitleChoices, a \in AuthorChoices,
        c \in ContactChoices, d \in DescriptionChoices}

\* The suffixes apply_title_suffix is called with.
Suffixes == {Str(""), Str("v2"), Str("v3")}

\* The arguments of a run, as far as the composer reads them.  The sub-field
\* overrides come in four patterns: none given, all given, the author's name
\* alone, the contact's email and the description alone.
SubOverrides ==
    {[author_name |-> None, author_affiliation |-> None,
      author_identifier |-> None, author_identifier_scheme |-> None,
      contact_name |-> None, contact_email |-> None,
      dataset_description |-> None],
     [author_name |-> Str("New Name"), author_affiliation |-> Str("New Affiliation"),
      author_identifier |-> Str("0000-0001"), author_identifier_scheme |-> Str("ORCID"),
      contact_name |-> Str("New Contact"), contact_email |-> Str("new@example.org"),
      dataset_description |-> Str("New text")],
     [author_name |-> Str("New Name"), author_affiliation |-> None,
      author_identifier |-> None, author_identifier_scheme |-> None,
      contact_name |-> None, contact_email |-> None,
      dataset_description |-> None],
     [author_name |-> None, author_affiliation |-> None,
      author_identifier |-> None, author_identifier_scheme |-> None,
      contact_name |-> None, contact_email |-> Str("new@example.org"),
      dataset_description |-> Str("New text")]}

ComposeArgsSet ==
    {[title_suffix |-> ts, citation_title |-> ct,
      author_name |-> o.author_name,
      author_affiliation |-> o.author_affiliation,
      author_identifier |-> o.author_identifier,
      author_identifier_scheme |-> o.author_identifier_scheme,
      contact_name |-> o.contact_name, contact_email |-> o.contact_email,
      dataset_description |-> o.dataset_description] :
        ts \in {None, Str(""), Str("v2")},
        ct \in {None, Str(""), Str("Base Title")},
        o \in SubOverrides}

\* metadata = load_dataset_template(path) has returned.
InitCompose ==
    /\ args \in ComposeArgsSet
    /\ env = [data_root |-> TRUE, template |-> "ok"]
    /\ pc = "compose"
    /\ dvExists = FALSE
    /\ InitRest
    /\ template \in Templates
    /\ metadata = template
    /\ log = <<>>

\* apply_title_suffix(metadata, suffix)
ApplyTitleSuffix(suffix) ==
    /\ pc = "compose"
    /\ Len(log) < MaxCalls
    /\ metadata' = apply_title_suffix(metadata, suffix)
    /\ log' = Append(log, [op |-> "suffix", suffix |-> suffix])
    /\ UNCHANGED <<args, env, pc, nfiles, dsResp, dataset_pid, err, template>>
    /\ UNCHANGED ensureVars
    /\ UNCHANGED uploadVars

\* apply_metadata_overrides(metadata, args)
ApplyMetadataOverrides ==
    /\ pc = "compose"
    /\ Len(log) < MaxCalls
    /\ metadata' = apply_metadata_overrides(metadata, args)
    /\ log' = Append(log, [op |-> "overrides", suffix |-> None])
    /\ UNCHANGED <<args, env, pc, nfiles, dsResp, dataset_pid, err, template>>
    /\ UNCHANGED ensureVars
    /\ UNCHANGED uploadVars

\* build_dataset on the loaded template, up to json.dumps(metadata).
Compose ==
    /\ pc = "compose"
    /\ log = <<>>
    /\ metadata' =
        apply_metadata_overrides(
            apply_title_suffix(metadata, ResolvedSuffix(args)), args)
    /\ log' = <<[op |-> "suffix", suffix |-> ResolvedSuffix(args)],
                [op |-> "overrides", suffix |-> None]>>
    /\ pc' = "composed"
    /\ UNCHANGED <<args, env, nfiles, dsResp, dataset_pid, err, template>>
    /\ UNCHANGED ensureVars
    /\ UNCHANGED uploadVars

NextCompose ==
    \/ \E suffix \in Suffixes : ApplyTitleSuffix(suffix)
    \/ ApplyMetadataOverrides
    \/ Compose

SpecCompose == InitCompose /\ [][NextCompose]_vars

\* ------------------------------------------------------- upload_files alone

\* create_dataset has returned the identifier and the file list is not empty:
\* main calls upload_files.
InitUpload ==
    /\ args \in {a \in ArgsSet : a.dataverse_alias /\ a.skip_dataverse_creation}
    /\ env = [data_root |-> TRUE, template |-> "ok"]
    /\ pc = "upload_files"
    /\ nfiles \in 1..MaxFiles
    /\ task = [f \in 1..nfiles |-> NewTask]
    /\ dvExists = FALSE
    /\ calls = [get |-> 0, createDv |-> 0, createDs |-> 1]
    /\ getStatus = 0
    /\ resp = NoResp
    /\ outcome = <<"skipped">>
    /\ created = 0
    /\ dsResp = [status |-> 201, pid |-> "doi:A"]
    /\ dataset_pid = "doi:A"
    /\ idx = 1
    /\ finished = {}
    /\ queue = <<>>
    /\ earlyFailed = {}
    /\ firstFailed = 0
    /\ errors = <<>>
    /\ err = NoErr
    /\ NotComposing

NextUpload ==
    \/ \E f \in Files : UploadBegin(f)
    \/ \E f \in Files : UploadRespond(f)
    \/ \E f \in Files : UploadRetry(f)
    \/ Submit
    \/ AsCompleted
    \/ \E f \in Files : Collect(f)

\* Every service call returns, every sleep ends and every thread is scheduled:
\* the run does not stop while it has a step to take.
SpecUpload == InitUpload /\ [][NextUpload]_vars /\ WF_vars(NextUpload)

\* ------------------------------------------------------------------ claims

\* max(1, maxAttempts) of the configured retry count.
MaxAttempts == IF args.upload_retries < 1 THEN 1 ELSE args.upload_retries

Attempted == {f \in Files : task[f].attempts > 0}
Failed == {f \in Files : task[f].st = "failed"}
Succeeded == {f \in Files : task[f].st = "succeeded"}
NoServiceCall ==
    /\ calls.get = 0 /\ calls.createDv = 0 /\ calls.createDs = 0
    /\ Attempted = {}
\* upload_files has returned or raised.
UploadEnded == (pc = "done" /\ nfiles > 0) \/ err.kind = "UploadError"

\* C1: in sequential mode a file is attempted only when every file before it
\* was uploaded (each exactly once stored, never undone); the file whose every
\* attempt failed got exactly max(1, retries) attempts, it ends the run with
\* its error, and no file after it is ever attempted.
C1_SequentialFailFast ==
    ~args.concurrent_upload =>
        \A f \in Files :
            /\ f \in Attempted =>
                \A g \in 1..(f - 1) : task[g].st = "succeeded" /\ task[g].stored = 1
            /\ f \in Failed =>
                /\ task[f].attempts = MaxAttempts
                /\ task[f].stored = 0
                /\ \A h \in (f + 1)..nfiles : task[h].attempts = 0
                /\ pc = "failed"
                /\ err.kind = "UploadError" /\ err.file = f

\* Files [A, B, C], B fails all three attempts: A uploaded, C never attempted.
C1_Witness ==
    /\ ~args.concurrent_upload /\ nfiles = 3 /\ args.upload_retries = 3
    /\ task[1].st = "succeeded" /\ task[1].stored = 1
    /\ task[2].st = "failed" /\ task[2].attempts = 3
    /\ task[3].attempts = 0
    /\ pc = "failed"

\* C2: in concurrent mode, when upload_files returns or raises, every file was
\* attempted at least once and its task is terminal: succeeded, or failed after
\* max(1, retries) attempts; no task is left pending or running because another
\* one failed.
C2_ConcurrentRunsAll ==
    (args.concurrent_upload /\ UploadEnded) =>
        \A f \in Files :
            /\ task[f].attempts >= 1
            /\ task[f].st \in {"succeeded", "failed"}
            /\ task[f].st = "failed" => task[f].attempts = MaxAttempts
            /\ task[f].st = "succeeded" => task[f].stored = 1

\* Files [A, B, C], B fails, A and C are uploaded all the same.
C2_Witness ==
    /\ args.concurrent_upload /\ nfiles = 3 /\ pc = "failed"
    /\ task[1].st = "succeeded" /\ task[2].st = "failed" /\ task[3].st = "succeeded"
    /\ firstFailed = 2

\* The failures collected are the failed tasks among the futures yielded so far,
\* each once, and all of them when upload_files ends.
ErrorsExact ==
    args.concurrent_upload =>
        /\ \A i, j \in 1..Len(errors) : errors[i] = errors[j] => i = j
        /\ {errors[i] : i \in 1..Len(errors)} = Yielded \cap Failed
        /\ UploadEnded => Yielded = Files
        /\ (UploadEnded /\ Failed # {}) =>
            pc = "failed" /\ err.kind = "UploadError" /\ err.file = errors[1]

\* C3 as stated: the collection is exact and the aggregate error names the
\* first terminal failure in completion order.
C3_FirstFailureInCompletionOrder ==
    /\ ErrorsExact
    /\ (args.concurrent_upload /\ err.kind = "UploadError") =>
        err.file = firstFailed

\* C3 as amended: the collection is exact and the aggregate error names the
\* first failure as_completed yielded; that is the first failure in completion
\* order when at most one failed task had finished before as_completed was
\* called, and one of those already finished failures otherwise.
C3_FirstFailureYielded ==
    /\ ErrorsExact
    /\ (args.concurrent_upload /\ err.kind = "UploadError") =>
        /\ err.file \in Failed
        /\ Cardinality(earlyFailed) <= 1 => err.file = firstFailed
        /\ earlyFailed # {} => err.file \in earlyFailed

\* Files [A, B, C], B and C fail, C first, after as_completed was called: the
\* error names C.
C3_Witness ==
    /\ args.concurrent_upload /\ nfiles = 3 /\ err.kind = "UploadError"
    /\ Failed = {2, 3} /\ earlyFailed = {} /\ firstFailed = 3
    /\ err.file = 3

\* C4: a task that started made between 1 and max(1, retries) upload calls, for
\* every retry count down to -1; a call the service accepted (200 or 201) ended
\* the task, so nothing is stored twice; a task failed only after exactly
\* max(1, retries) calls none of which was accepted.
C4_AttemptsBounded ==
    \A f \in Files :
        /\ task[f].attempts <= MaxAttempts
        /\ task[f].st # "pending" => task[f].attempts >= 1
        /\ task[f].stored >= 1 => task[f].st = "succeeded" /\ task[f].stored = 1
        /\ task[f].st = "succeeded" => task[f].stored = 1
        /\ task[f].st = "failed" =>
            task[f].attempts = MaxAttempts /\ task[f].stored = 0

\* A retry count of -1: one call, and the task failed.
C4_Witness ==
    /\ args.upload_retries = 0 - 1
    /\ \E f \in Files : task[f].st = "failed" /\ task[f].attempts = 1

\* C5: a task that succeeded at its k-th call has k <= max(1, retries) and slept
\* k - 1 times; sleeps happen only between two calls: a task in flight or ended
\* at its k-th call has slept k - 1 times, a sleeping one k times.
C5_SleepsBetweenAttempts ==
    \A f \in Files :
        /\ task[f].st = "succeeded" =>
            /\ task[f].attempts \in 1..MaxAttempts
            /\ task[f].sleeps = task[f].attempts - 1
        /\ task[f].st \in {"attempting", "failed"} =>
            task[f].sleeps = task[f].attempts - 1
        /\ task[f].st = "sleeping" =>
            task[f].sleeps = task[f].attempts /\ task[f].attempts < MaxAttempts

\* retries = 3, two failures, then success: 3 attempts, 2 sleeps.
C5_Witness ==
    /\ args.upload_retries = 3
    /\ \E f \in Files :
        /\ task[f].st = "succeeded"
        /\ task[f].attempts = 3 /\ task[f].sleeps = 2 /\ task[f].stored = 1

\* The bodies that contain "already exists" in some letter case.
ConflictBodies == {BodyConflict, BodyConflictCaps}
EnsureOk == {"skipped", "found", "created", "conflict"}

\* C6: once createCollection was called, a 201 answer, or a 400 answer whose
\* body says "already exists" in any letter case, let the run go on without an
\* error from ensureCollection; any other answer ended the run with a
\* ProvisioningError carrying that status and body, and neither createDataset
\* nor an upload was called.
C6_CreateCollectionOutcome ==
    calls.createDv >= 1 =>
        IF resp.status = 201
        THEN err.kind # "ProvisioningError" /\ outcome = <<"created">>
        ELSE IF resp.status = 400 /\ resp.body \in ConflictBodies
        THEN err.kind # "ProvisioningError" /\ outcome = <<"conflict">>
        ELSE /\ pc = "failed"
             /\ err.kind = "ProvisioningError"
             /\ err.status = resp.status /\ err.body = resp.body
             /\ calls.createDs = 0
             /\ Attempted = {}

\* "Already Exists!" with status 400, and the run went on to create the dataset.
C6_Witness ==
    /\ resp = [status |-> 400, body |-> BodyConflictCaps]
    /\ calls.createDs = 1
    /\ pc = "done"

\* C7: with skipCreation no collection call is made; createCollection is called
\* at most once, only after a getCollection, and never when that reported found.
C7_CollectionCalls ==
    /\ args.skip_dataverse_creation => calls.get = 0 /\ calls.createDv = 0
    /\ calls.get <= 1
    /\ calls.createDv <= 1
    /\ calls.createDv = 1 => calls.get = 1 /\ getStatus # 200
    /\ getStatus = 200 => calls.createDv = 0 /\ pc # "creating"
    /\ pc = "creating" => calls.get = 1

\* getCollection answered 404 and createCollection was called.
C7_Witness ==
    /\ ~args.skip_dataverse_creation
    /\ calls.get = 1 /\ getStatus = 404 /\ calls.createDv = 1

\* C8: against a service that keeps track of its collections, consecutive calls
\* of ensureCollection all return without raising, also when another client
\* creates the collection between the existence check and the create call; the
\* collection is created at most once.
C8_EnsureIdempotent ==
    /\ pc # "failed"
    /\ err.kind = "none"
    /\ \A i \in 1..Len(outcome) : outcome[i] \in EnsureOk
    /\ created <= 1
    /\ created = 1 => dvExists
    /\ \A i \in 2..Len(outcome) :
        ~args.skip_dataverse_creation => outcome[i] = "found"

\* The first call lost the race and was answered "already exists"; the second
\* found the collection.
C8_Witness ==
    /\ outcome = <<"conflict", "found">>
    /\ created = 0
    /\ resp.body = BodyConflictCaps
    /\ pc = "ensured"

\* C9: in a run whose data directory is missing, or whose template is missing,
\* malformed, or composes to a document that fails validation (against the
\* schema, or in the verdict of validate_json), no service call is ever made:
\* the run ends in a fatal error first.
C9_FatalBeforeService ==
    (~env.data_root \/ env.template # "ok") =>
        /\ NoServiceCall
        /\ pc # "done"

\* C10: createDataset is called at most once and only after ensureCollection
\* returned; an upload is issued only after createDataset answered 201 and
\* carries the identifier of that answer; another answer is fatal and no upload
\* is attempted.
C10_DatasetBeforeUploads ==
    /\ calls.createDs <= 1
    /\ calls.createDs = 1 => Len(outcome) = 1 /\ outcome[1] \in EnsureOk
    /\ \A f \in Attempted :
        /\ calls.createDs = 1 /\ dsResp.status = 201
        /\ task[f].pids = {dsResp.pid}
    /\ (calls.createDs = 1 /\ dsResp.status # 201) =>
        /\ pc = "failed" /\ err.kind = "DatasetCreationError"
        /\ err.status = dsResp.status
        /\ Attempted = {}

\* Three attempts for a file, all carrying the identifier the service returned.
C10_Witness ==
    /\ dsResp = [status |-> 201, pid |-> "doi:B"]
    /\ \E f \in Files : task[f].attempts = 3 /\ task[f].pids = {"doi:B"}

\* C11: when upload_files has returned or raised, it returned exactly when no
\* file task failed terminally, in both modes; the process exits with code 0
\* exactly when ensure_dataverse_exists returned, create_dataset answered 201
\* and every file was uploaded, and with code 1 exactly when a fatal error was
\* raised.
C11_ExitCode ==
    /\ UploadEnded => ((pc = "done") <=> (Failed = {}))
    /\ ExitCode # 0 - 1 =>
        (ExitCode = 0 <=>
            /\ Len(outcome) = 1 /\ outcome[1] \in EnsureOk
            /\ dsResp.status = 201
            /\ \A f \in Files : task[f].st = "succeeded" /\ task[f].stored = 1)
    /\ ExitCode = 1 <=> err.kind # "none"
    /\ ExitCode = 0 => err = NoErr

\* A concurrent run over three files, one uploaded at its second attempt, exits
\* with 0.
C11_Witness ==
    /\ ExitCode = 0 /\ nfiles = 3 /\ args.concurrent_upload
    /\ \E f \in Files : task[f].attempts = 2

\* The run found its data directory, and it holds no file.
EmptyRun ==
    /\ args.dataverse_alias /\ env.data_root
    /\ pc \notin {"start", "iter_files"}
    /\ nfiles = 0

\* C12: with an empty file list, in either mode, upload_files is not entered, no
\* task is submitted and no upload error arises; a run that ended in success has
\* ensured the collection and created the dataset, and once create_dataset
\* answered 201 the run has ended with exit code 0 and without an error.
C12_EmptyFileList ==
    EmptyRun =>
        /\ pc \notin {"upload_files", "collecting"}
        /\ idx = 1 /\ errors = <<>> /\ finished = {} /\ queue = <<>>
        /\ err.kind # "UploadError"
        /\ pc = "done" =>
            /\ Len(outcome) = 1 /\ outcome[1] \in EnsureOk
            /\ calls.createDs = 1 /\ dsResp.status = 201
        /\ dsResp.status = 201 =>
            pc = "done" /\ ExitCode = 0 /\ err = NoErr

\* Concurrent mode, no file: the collection was created, the dataset too, and the
\* run is done.
C12_Witness ==
    /\ EmptyRun /\ args.concurrent_upload
    /\ calls.createDv = 1 /\ calls.createDs = 1
    /\ pc = "done" /\ ExitCode = 0

\* The value of the first title field (None: there is no title field).
TitleValue(fields) ==
    IF find_field(fields, "title") = 0
    THEN None
    ELSE fields[find_field(fields, "title")].value

EndsWith(s, suffix) ==
    /\ Len(s) >= Len(suffix)
    /\ SubSeq(s, Len(s) - Len(suffix) + 1, Len(s)) = suffix

\* C13, for the run that supplies a suffix: the title of the document
\* build_dataset composed is a string that ends with the supplied suffix, and is
\* exactly that suffix when the template has no title field.  (With no suffix
\* supplied the claim puts the timestamp in its place.)
C13_TitleCarriesSuffix ==
    (pc = "composed" /\ Truthy(args.title_suffix)) =>
        /\ TitleValue(metadata).t = "str"
        /\ EndsWith(TitleValue(metadata).s, args.title_suffix.s)
        /\ find_field(template, "title") = 0 =>
            TitleValue(metadata) = args.title_suffix

\* The calls of apply_title_suffix made with a non-empty suffix.
IsSuffixCall(e) == e.op = "suffix" /\ e.suffix.t = "str" /\ e.suffix.s # ""
SuffixCalls == SelectSeq(log, IsSuffixCall)
OnlySuffixCalls == \A i \in 1..Len(log) : log[i].op = "suffix"

\* The suffixes of the calls es, joined by single spaces.
RECURSIVE JoinSpace(_)
JoinSpace(es) ==
    IF Len(es) = 1
    THEN es[1].suffix.s
    ELSE es[1].suffix.s \o " " \o JoinSpace(Tail(es))

\* C14: after calls of apply_title_suffix alone: when every suffix was empty the
\* fields are those of the template; otherwise a template without a title got
\* one primitive title field, appended, whose value is the non-empty suffixes
\* in call order joined by single spaces, and a string title T became T, a
\* space, and those suffixes (nothing replaced, nothing deduplicated); no other
\* field changed.
C14_TitleSuffix ==
    (pc = "compose" /\ OnlySuffixCalls) =>
        LET i == find_field(template, "title") IN
        IF SuffixCalls = <<>>
        THEN metadata = template
        ELSE IF i = 0
        THEN metadata =
                Append(template, Primitive("title", Str(JoinSpace(SuffixCalls))))
        ELSE IF template[i].value.t = "str"
        THEN metadata =
                [template EXCEPT
                    ![i].value = Str(@.s \o " " \o JoinSpace(SuffixCalls))]
        ELSE metadata =
                [template EXCEPT ![i].value = Str(JoinSpace(SuffixCalls))]

\* "My Dataset", then "v2", then "v3": "My Dataset v2 v3".
C14_Witness ==
    /\ TitleValue(template) = Str("My Dataset")
    /\ log = <<[op |-> "suffix", suffix |-> Str("v2")],
               [op |-> "suffix", suffix |-> Str("v3")]>>
    /\ TitleValue(metadata) = Str("My Dataset v2 v3")

Managed == <<"author", "datasetContact", "dsDescription">>
ManagedValues(type_name, a) ==
    CASE type_name = "author"         -> AuthorValues(a)
      [] type_name = "datasetContact" -> ContactValues(a)
      [] OTHER                        -> DescriptionValues(a)

OverridesCalled == \E i \in 1..Len(log) : log[i].op = "overrides"
OnlyOverridesCalls ==
    /\ log # <<>>
    /\ \A i \in 1..Len(log) : log[i].op = "overrides"

\* Every override is null.
AllNull(a) ==
    /\ a.citation_title = None
    /\ \A k \in 1..Len(Managed) :
        \A n \in 1..Len(ManagedValues(Managed[k], a)) :
            ManagedValues(Managed[k], a)[n][2] = None

\* Where the template has an entry for a managed field, a sub-field whose
\* override is null is in the first entry what it was: absent, or the same.
NullKeepsSubField ==
    \A k \in 1..Len(Managed) :
        LET i == find_field(template, Managed[k])
            values == ManagedValues(Managed[k], args)
        IN (i # 0 /\ template[i].value.l # <<>>) =>
            /\ find_field(metadata, Managed[k]) = i
            /\ \A n \in 1..Len(values) :
                values[n][2] = None =>
                    LET was == template[i].value.l[1]
                        is == metadata[i].value.l[1]
                    IN /\ values[n][1] \in DOMAIN is <=> values[n][1] \in DOMAIN was
                       /\ values[n][1] \in DOMAIN was =>
                            is[values[n][1]] = was[values[n][1]]

\* The managed compound fields the template lacks, as ensure_compound_entry
\* creates them, in the order of the calls.
RECURSIVE CreatedFrom(_, _)
CreatedFrom(fields, k) ==
    IF k > Len(Managed)
    THEN <<>>
    ELSE (IF find_field(fields, Managed[k]) = 0
          THEN <<Compound(Managed[k], <<EmptyEntry>>)>>
          ELSE <<>>) \o CreatedFrom(fields, k + 1)

\* The fields with the empty value list of every managed compound field
\* replaced by a list of one empty entry.
Healed(fields) ==
    [i \in 1..Len(fields) |->
        IF /\ \E k \in 1..Len(Managed) : fields[i].typeName = Managed[k]
           /\ fields[i].value = List(<<>>)
        THEN [fields[i] EXCEPT !.value = List(<<EmptyEntry>>)]
        ELSE fields[i]]

\* C15 as stated: a null override leaves its sub-field untouched, and with only
\* null overrides the fields are those of the template followed by the managed
\* compound fields it lacked, each created with one empty entry.
C15_NullOverridesOnlyCreate ==
    (pc = "compose" /\ OnlyOverridesCalls) =>
        /\ NullKeepsSubField
        /\ AllNull(args) => metadata = template \o CreatedFrom(template, 1)

\* C15 as amended: as stated, except that a managed compound field the template
\* holds with an empty value list is given a list of one empty entry.
C15_NullOverridesCreateOrHeal ==
    (pc = "compose" /\ OnlyOverridesCalls) =>
        /\ NullKeepsSubField
        /\ AllNull(args) => metadata = Healed(template) \o CreatedFrom(template, 1)

\* Only null overrides, applied twice, on a template with an author, an empty
\* description list and no contact: the author is untouched, the description
\* has one empty entry, the contact was created.
C15_Witness ==
    /\ AllNull(args) /\ Len(log) = 2 /\ OnlyOverridesCalls
    /\ find_field(template, "author") # 0
    /\ template[find_field(template, "author")].value.l = <<OldAuthor, SecondAuthor>>
    /\ find_field(template, "datasetContact") = 0
    /\ find_field(template, "dsDescription") # 0
    /\ template[find_field(template, "dsDescription")].value = List(<<>>)
    /\ metadata[find_field(metadata, "datasetContact")].value = List(<<EmptyEntry>>)
    /\ metadata[find_field(metadata, "author")] = template[find_field(template, "author")]

LastCallIsOverrides == log # <<>> /\ log[Len(log)].op = "overrides"

\* C16: after apply_metadata_overrides with a non-empty title override T, the
\* value of the title field is exactly T whatever it was before (a string, a
\* string with suffixes appended, not a string); the field is where the
\* template had it, and a template without one has got a title field.
C16_TitleOverride ==
    (LastCallIsOverrides /\ Truthy(args.citation_title)) =>
        /\ find_field(metadata, "title") # 0
        /\ TitleValue(metadata) = args.citation_title
        /\ find_field(template, "title") # 0 =>
            find_field(metadata, "title") = find_field(template, "title")
        /\ (find_field(template, "title") = 0 /\ SuffixCalls = <<>>) =>
            /\ find_field(metadata, "title") = Len(template) + 1
            /\ metadata[Len(template) + 1] = Primitive("title", args.citation_title)

\* The title "My Dataset v2" replaced by the override.
C16_Witness ==
    /\ TitleValue(template) = Str("My Dataset")
    /\ log = <<[op |-> "suffix", suffix |-> Str("v2")],
               [op |-> "overrides", suffix |-> None]>>
    /\ args.citation_title = Str("Base Title")
    /\ TitleValue(metadata) = Str("Base Title")

Unique(fields) ==
    \A i, j \in 1..Len(fields) :
        fields[i].typeName = fields[j].typeName => i = j

\* C17: a template whose typeNames are unique keeps them unique through every
\* sequence of apply_title_suffix and apply_metadata_overrides calls; its fields
\* stay where they were, and a field appended has a typeName the template
\* lacked.
C17_TypeNamesUnique ==
    Unique(template) =>
        /\ Unique(metadata)
        /\ Len(metadata) >= Len(template)
        /\ \A i \in 1..Len(template) : metadata[i].typeName = template[i].typeName
        /\ \A i \in (Len(template) + 1)..Len(metadata) :
            find_field(template, metadata[i].typeName) = 0

\* A template of a subject and an author: the title and two compound fields
\* were appended.
C17_Witness ==
    /\ Len(template) = 2 /\ Len(metadata) = 5 /\ Len(log) = 2
    /\ find_field(template, "author") = 2
    /\ Unique(metadata)

\* C18 as stated: after apply_metadata_overrides each managed compound field
\* holds a value list of exactly one entry, whatever the template held.
C18_SingleEntry ==
    OverridesCalled =>
        \A k \in 1..Len(Managed) :
            /\ find_field(metadata, Managed[k]) # 0
            /\ Len(metadata[find_field(metadata, Managed[k])].value.l) = 1

\* The sub-fields of a managed compound field that the arguments give a value.
Given(type_name, a) ==
    {ManagedValues(type_name, a)[n][1] :
        n \in {m \in 1..Len(ManagedValues(type_name, a)) :
                    ManagedValues(type_name, a)[m][2] # None}}

\* C18 as amended: after apply_metadata_overrides each managed compound field
\* holds at least one entry: exactly one when the template lacked the field or
\* held it with an empty list (the entry then holds the given sub-fields and
\* no other), and as many as the template held otherwise; the overrides are
\* written to the first entry, the further entries are those of the template.
C18_FirstEntryManaged ==
    OverridesCalled =>
        \A k \in 1..Len(Managed) :
            LET i == find_field(template, Managed[k])
                j == find_field(metadata, Managed[k])
                was == IF i = 0 THEN <<>> ELSE template[i].value.l
                is == metadata[j].value.l
                values == ManagedValues(Managed[k], args)
            IN /\ j # 0
               /\ metadata[j].value.t = "list"
               /\ Len(is) = Max(1, Len(was))
               /\ \A n \in 2..Len(is) : is[n] = was[n]
               /\ \A n \in 1..Len(values) :
                    values[n][2] # None =>
                        /\ values[n][1] \in DOMAIN is[1]
                        /\ is[1][values[n][1]].value = values[n][2]
               /\ was = <<>> => DOMAIN is[1] = Given(Managed[k], args)

\* The template's empty author list has become one entry that holds the name
\* given; the contact the template lacked was created with one empty entry.
C18_Witness ==
    /\ OverridesCalled
    /\ args.author_name = Str("New Name") /\ args.contact_email = None
    /\ find_field(template, "author") # 0
    /\ template[find_field(template, "author")].value = List(<<>>)
    /\ Len(metadata[find_field(metadata, "author")].value.l) = 1
    /\ metadata[find_field(metadata, "author")].value.l[1]["authorName"].value
            = Str("New Name")
    /\ find_field(template, "datasetContact") = 0
    /\ DOMAIN metadata[find_field(metadata, "datasetContact")].value.l[1] = {}

\* The tasks that hold a worker thread: in an attempt, or in a retry delay.
Busy == {f \in Files : task[f].st \in {"attempting", "sleeping"}}
Delaying == {f \in Files : task[f].st = "sleeping"}

\* The submitted task that is first in the executor's work queue.
NextInQueue(g) ==
    /\ task[g].st = "pending"
    /\ g < idx
    /\ \A h \in 1..(g - 1) : task[h].st # "pending"

\* C19 as stated: in concurrent mode, while some task is in its retry delay,
\* every task in an attempt can get its response, every delaying task can go on
\* to its next attempt, and the task next in the work queue can start, however
\* many files and workers there are.
C19_DelayBlocksOnlyItself ==
    (args.concurrent_upload /\ Delaying # {}) =>
        \A g \in Files :
            /\ task[g].st = "attempting" => ENABLED UploadRespond(g)
            /\ task[g].st = "sleeping" => ENABLED UploadRetry(g)
            /\ NextInQueue(g) => ENABLED UploadBegin(g)

\* C19 as amended: a task in its retry delay keeps its worker thread.  The tasks
\* that have started are never held up by it; the task next in the work queue
\* can start exactly when fewer tasks than there are workers are attempting or
\* delaying.
C19_DelayHoldsWorker ==
    (args.concurrent_upload /\ Delaying # {}) =>
        /\ Cardinality(Busy) <= PoolSize
        /\ \A g \in Files :
            /\ task[g].st = "attempting" => ENABLED UploadRespond(g)
            /\ task[g].st = "sleeping" => ENABLED UploadRetry(g)
            /\ NextInQueue(g) =>
                (ENABLED UploadBegin(g) <=> Cardinality(Busy) < PoolSize)

\* Three files, two workers: the first two tasks are in their retry delay, the
\* third was submitted and waits.
C19_Witness ==
    /\ args.concurrent_upload /\ nfiles = 3 /\ idx = 4
    /\ task[1].st = "sleeping" /\ task[2].st = "sleeping"
    /\ task[3].st = "pending"

\* The upload calls issued so far, for the files 1..f.
RECURSIVE UploadCalls(_)
UploadCalls(f) == IF f = 0 THEN 0 ELSE task[f].attempts + UploadCalls(f - 1)

RunEnded == pc \in {"done", "failed"}

\* C20 as stated, its final result: at most |files| * max(1, maxAttempts) upload
\* calls are made, and when the run has ended every file task is Succeeded or
\* FailedTerminal, in both modes.
C20_EveryTaskEnds ==
    /\ UploadCalls(nfiles) <= nfiles * MaxAttempts
    /\ RunEnded => \A f \in Files : Terminal(f)

\* A step of a file task: Pending -> Attempting -> Succeeded, Sleeping or
\* FailedTerminal, Sleeping -> Attempting; entering Attempting is one more
\* upload call; a terminal task does not change.
TaskStep(t, u) ==
    \/ u = t
    \/ /\ t.st \in {"pending", "sleeping"}
       /\ u.st = "attempting" /\ u.attempts = t.attempts + 1
    \/ /\ t.st = "attempting"
       /\ u.st \in {"succeeded", "sleeping", "failed"}
       /\ u.attempts = t.attempts

Started(f) == f <= nfiles /\ task[f].st # "pending"
Ended(f) == f <= nfiles /\ task[f].st \in {"succeeded", "failed"}

\* C20 as amended: every file task steps as the state machine says and never
\* leaves a terminal state; a task that has started eventually reaches Succeeded
\* or FailedTerminal; the run ends, after at most |files| * max(1, maxAttempts)
\* upload calls; when it has ended every task is terminal in concurrent mode,
\* and in sequential mode every task is terminal or was never started, a file
\* before it having failed.
C20_StartedTaskEnds ==
    /\ [][\A f \in Files : TaskStep(task[f], task'[f])]_vars
    /\ [](UploadCalls(nfiles) <= nfiles * MaxAttempts)
    /\ \A f \in 1..MaxFiles : Started(f) ~> Ended(f)
    /\ <>RunEnded
    /\ [](RunEnded =>
            \A f \in Files :
                \/ Terminal(f)
                \/ /\ ~args.concurrent_upload
                   /\ task[f].st = "pending"
                   /\ \E g \in 1..(f - 1) : task[g].st = "failed")

\* Sequential, three files, three attempts each: the second file failed at its
\* third attempt and the third was never started.
C20_Witness ==
    /\ ~args.concurrent_upload /\ nfiles = 3 /\ RunEnded
    /\ task[1].st = "succeeded" /\ task[1].attempts = 3
    /\ task[2].st = "failed" /\ task[2].attempts = 3
    /\ task[3].st = "pending"
    /\ UploadCalls(nfiles) = 6

====
